---------------------------- MODULE Spec2Model ----------------------------
(***************************************************************************)
(* Model of standardize_cv.py: the CV standardisation pipeline             *)
(*   PDF -> Markdown (Marker) -> JSON (Ollama) -> RenderCV YAML -> render. *)
(*                                                                         *)
(* Text is a sequence of one-character strings.  A JSON value is a record  *)
(* tagged by its Python type:                                              *)
(*   None  [t: "null"]            bool  [t: "bool", b]                     *)
(*   int   [t: "num", n]          str   [t: "str", s: characters]          *)
(*   list  [t: "list", l: values] dict  [t: "dict", m: key -> value]       *)
(* Dictionary keys are character sequences.                                *)
(***************************************************************************)
EXTENDS Integers, Sequences, FiniteSets, TLC

VARIABLES
    pc,          \* position of the run (or of the function call under study)
    stage,       \* orchestrator state: Init, Extracted, Structured, ...
    skip_render, \* args.skip_render
    disk,        \* working-directory artifacts: "absent", "stale" (left by an
                 \* earlier run) or "fresh" (written by this run)
    trace,       \* events this run has executed, in order
    exit_code,   \* process exit status, -1 while running
    failure,     \* cause of the terminal failure, "none" otherwise
    candidates,  \* list(marker_out_dir.rglob("*.md")), in listing order
    md_path,     \* result of _find_best_markdown
    content,     \* message.content returned by the generation backend
    salvaged,    \* outcome of _extract_json_object(content)
    structured,  \* the validated structured record
    projected    \* outcome of convert_structured_to_rendercv_yaml(structured)

vars == <<pc, stage, skip_render, disk, trace, exit_code, failure,
          candidates, md_path, content, salvaged, structured, projected>>

-----------------------------------------------------------------------------
(* JSON values                                                             *)

JNull == [t |-> "null"]
JBool(b) == [t |-> "bool", b |-> b]
JNum(n) == [t |-> "num", n |-> n]
JStr(s) == [t |-> "str", s |-> s]
JList(l) == [t |-> "list", l |-> l]
JDict(m) == [t |-> "dict", m |-> m]

EmptyMap == [k \in {} |-> JNull]

isinstance_dict(v) == v.t = "dict"
isinstance_str(v) == v.t = "str"

\* Outcome of a call: a returned value or a raised exception.
Return(v) == [kind |-> "return", v |-> v]
Raise(exc) == [kind |-> "raise", exc |-> exc]
NotCalled == [kind |-> "none"]

-----------------------------------------------------------------------------
(* str.strip, str.find, str.rfind, slicing                                 *)

IsSpace(c) == c \in {" ", "\n", "\t", "\r"}

RECURSIVE lstrip(_)
lstrip(s) == IF s # <<>> /\ IsSpace(Head(s)) THEN lstrip(Tail(s)) ELSE s

RECURSIVE rstrip(_)
rstrip(s) ==
    IF s # <<>> /\ IsSpace(s[Len(s)]) THEN rstrip(SubSeq(s, 1, Len(s) - 1)) ELSE s

strip(s) == rstrip(lstrip(s))

\* Python indices are 0-based; -1 means "not found".
find(s, c) ==
    IF \E i \in 1..Len(s) : s[i] = c
    THEN (CHOOSE i \in 1..Len(s) : s[i] = c /\ \A j \in 1..(i - 1) : s[j] # c) - 1
    ELSE -1

rfind(s, c) ==
    IF \E i \in 1..Len(s) : s[i] = c
    THEN (CHOOSE i \in 1..Len(s) : s[i] = c /\ \A j \in (i + 1)..Len(s) : s[j] # c) - 1
    ELSE -1

\* Variant: the slice stops before the last brace, text[start:end].
slice_exclusive(s, a, b) == SubSeq(s, a + 1, b - 1)

\* s[a:b] for 0 <= a <= b
slice(s, a, b) == SubSeq(s, a + 1, b)

-----------------------------------------------------------------------------
(* json.loads: the decoder of the standard library, for texts without      *)
(* fractions, exponents, \u escapes and NaN/Infinity literals.             *)

Digits == {"0", "1", "2", "3", "4", "5", "6", "7", "8", "9"}

DigitVal(c) ==
    CASE c = "0" -> 0 [] c = "1" -> 1 [] c = "2" -> 2 [] c = "3" -> 3
      [] c = "4" -> 4 [] c = "5" -> 5 [] c = "6" -> 6 [] c = "7" -> 7
      [] c = "8" -> 8 [] c = "9" -> 9

ParseFail == [ok |-> FALSE]
ParseOk(v, end) == [ok |-> TRUE, v |-> v, end |-> end]

At(s, i) == IF i >= 1 /\ i <= Len(s) THEN s[i] ELSE ""

RECURSIVE SkipWs(_, _)
SkipWs(s, i) == IF IsSpace(At(s, i)) THEN SkipWs(s, i + 1) ELSE i

StartsWith(s, i, w) ==
    /\ i + Len(w) - 1 <= Len(s)
    /\ \A k \in 1..Len(w) : s[i + k - 1] = w[k]

Unescape(c) ==
    CASE c = "n" -> "\n" [] c = "t" -> "\t" [] c = "r" -> "\r" [] OTHER -> c

\* py_scanstring, strict: i is the index after the opening quote.
RECURSIVE scanstring(_, _, _)
scanstring(s, i, acc) ==
    IF i > Len(s) THEN ParseFail
    ELSE IF s[i] = "\"" THEN ParseOk(acc, i + 1)
    ELSE IF s[i] \in {"\n", "\t", "\r"} THEN ParseFail
    ELSE IF s[i] = "\\"
         THEN IF At(s, i + 1) \in {"\"", "\\", "/", "n", "t", "r"}
              THEN scanstring(s, i + 2, Append(acc, Unescape(s[i + 1])))
              ELSE ParseFail
    ELSE scanstring(s, i + 1, Append(acc, s[i]))

\* NUMBER_RE integer part: (0|[1-9]\d*)
RECURSIVE ScanDigits(_, _, _)
ScanDigits(s, i, n) ==
    IF At(s, i) \in Digits
    THEN ScanDigits(s, i + 1, 10 * n + DigitVal(s[i]))
    ELSE ParseOk(JNum(n), i)

ScanInt(s, i) ==
    IF At(s, i) = "0" THEN ParseOk(JNum(0), i + 1)
    ELSE IF At(s, i) \in Digits THEN ScanDigits(s, i, 0)
    ELSE ParseFail

ScanNumber(s, i) ==
    IF At(s, i) = "-"
    THEN LET r == ScanInt(s, i + 1)
         IN  IF r.ok THEN ParseOk(JNum(0 - r.v.n), r.end) ELSE ParseFail
    ELSE ScanInt(s, i)

RECURSIVE scan_once(_, _), JSONObject(_, _, _), JSONArray(_, _, _)

\* scan_once(string, idx): the value starting exactly at index i.
scan_once(s, i) ==
    IF i > Len(s) THEN ParseFail
    ELSE IF s[i] = "\""
         THEN LET r == scanstring(s, i + 1, <<>>)
              IN  IF r.ok THEN ParseOk(JStr(r.v), r.end) ELSE ParseFail
    ELSE IF s[i] = "{"
         THEN LET j == SkipWs(s, i + 1)
              IN  IF At(s, j) = "}" THEN ParseOk(JDict(EmptyMap), j + 1)
                  ELSE JSONObject(s, j, EmptyMap)
    ELSE IF s[i] = "["
         THEN LET j == SkipWs(s, i + 1)
              IN  IF At(s, j) = "]" THEN ParseOk(JList(<<>>), j + 1)
                  ELSE JSONArray(s, j, <<>>)
    ELSE IF StartsWith(s, i, <<"n", "u", "l", "l">>) THEN ParseOk(JNull, i + 4)
    ELSE IF StartsWith(s, i, <<"t", "r", "u", "e">>) THEN ParseOk(JBool(TRUE), i + 4)
    ELSE IF StartsWith(s, i, <<"f", "a", "l", "s", "e">>)
         THEN ParseOk(JBool(FALSE), i + 5)
    ELSE ScanNumber(s, i)

\* JSONObject: i is the index where a key's opening quote is expected;
\* a repeated key keeps its last value.
JSONObject(s, i, acc) ==
    IF At(s, i) # "\"" THEN ParseFail
    ELSE LET k == scanstring(s, i + 1, <<>>)
         IN  IF ~k.ok THEN ParseFail
             ELSE LET c == SkipWs(s, k.end)
                  IN  IF At(s, c) # ":" THEN ParseFail
                      ELSE LET r == scan_once(s, SkipWs(s, c + 1))
                           IN  IF ~r.ok THEN ParseFail
                               ELSE LET e == SkipWs(s, r.end)
                                        m == (k.v :> r.v) @@ acc
                                    IN  IF At(s, e) = "}" THEN ParseOk(JDict(m), e + 1)
                                        ELSE IF At(s, e) = ","
                                             THEN JSONObject(s, SkipWs(s, e + 1), m)
                                        ELSE ParseFail

\* JSONArray: i is the index where an element is expected.
JSONArray(s, i, acc) ==
    LET r == scan_once(s, i)
    IN  IF ~r.ok THEN ParseFail
        ELSE LET e == SkipWs(s, r.end)
                 l == Append(acc, r.v)
             IN  IF At(s, e) = "]" THEN ParseOk(JList(l), e + 1)
                 ELSE IF At(s, e) = "," THEN JSONArray(s, SkipWs(s, e + 1), l)
                 ELSE ParseFail

\* json.loads(s): one value, surrounded by whitespace only; a failure
\* stands for json.JSONDecodeError.
json_loads(s) ==
    LET r == scan_once(s, SkipWs(s, 1))
    IN  IF r.ok /\ SkipWs(s, r.end) = Len(s) + 1 THEN Return(r.v)
        ELSE Raise("JSONDecodeError")


-----------------------------------------------------------------------------
(* _extract_json_object (lines 144-159)                                    *)

\* ValueError("Model output does not contain a JSON object") is reported as
\* NoJsonFound, json.JSONDecodeError from the salvage parse as InvalidJson.
_extract_json_object(text) ==
    LET t == strip(text)
        direct == json_loads(t)
    IN  IF direct.kind = "return" THEN Return(direct.v)
        ELSE LET start == find(t, "{")
                 end == rfind(t, "}")
             IN  IF start = -1 \/ end = -1 \/ end <= start
                 THEN Raise("NoJsonFound")
                 ELSE LET candidate == slice(t, start, end + 1)
                          r == json_loads(candidate)
                      IN  IF r.kind = "return" THEN Return(r.v)
                          ELSE Raise("InvalidJson")

-----------------------------------------------------------------------------
(* _find_best_markdown (lines 104-119)                                     *)
(* A candidate is [name, st]: the file name and the outcome of p.stat(),   *)
(* [ok |-> TRUE, st_size |-> n] or [ok |-> FALSE] for OSError.  A path is  *)
(* identified by its position in the listing.                              *)

Lower(c) ==
    CASE c = "C" -> "c" [] c = "V" -> "v" [] c = "R" -> "r" [] c = "E" -> "e"
      [] c = "S" -> "s" [] c = "U" -> "u" [] c = "M" -> "m" [] OTHER -> c

\* re.search(pattern, name, re.IGNORECASE) for a literal pattern
re_search(pat, name) ==
    \E i \in 1..(Len(name) - Len(pat) + 1) :
        \A k \in 1..Len(pat) : Lower(name[i + k - 1]) = pat[k]

score(p) ==
    LET name_bias == IF \/ re_search(<<"c", "v">>, p.name)
                        \/ re_search(<<"r", "e", "s", "u", "m", "e">>, p.name)
                     THEN 1 ELSE 0
        size == IF p.st.ok THEN p.st.st_size ELSE 0
    IN  <<name_bias, size>>

\* tuple comparison a < b
TupleLess(a, b) == a[1] < b[1] \/ (a[1] = b[1] /\ a[2] < b[2])

\* Variant: an unstable descending sort, x goes before the elements whose
\* key equals its own.
RECURSIVE InsertDesc_unstable(_, _, _)
InsertDesc_unstable(sorted, x, files) ==
    IF sorted = <<>> THEN <<x>>
    ELSE IF ~TupleLess(score(files[x]), score(files[Head(sorted)]))
         THEN <<x>> \o sorted
         ELSE <<Head(sorted)>> \o InsertDesc_unstable(Tail(sorted), x, files)

\* list.sort(key=score, reverse=True) is stable: equal keys keep their
\* listing order.  Insertion of x behind every element whose key is >= its own.
RECURSIVE InsertDesc(_, _, _)
InsertDesc(sorted, x, files) ==
    IF sorted = <<>> THEN <<x>>
    ELSE IF TupleLess(score(files[Head(sorted)]), score(files[x]))
         THEN <<x>> \o sorted
         ELSE <<Head(sorted)>> \o InsertDesc(Tail(sorted), x, files)

RECURSIVE SortDesc(_, _)
SortDesc(files, n) ==
    IF n = 0 THEN <<>> ELSE InsertDesc(SortDesc(files, n - 1), n, files)

\* Returns the listing position of the chosen path.
_find_best_markdown(files) ==
    IF files = <<>> THEN Raise("NoArtifacts")
    ELSE Return(SortDesc(files, Len(files))[1])


-----------------------------------------------------------------------------
(* Dictionary keys and string literals of the program                      *)

k_cv == <<"c", "v">>
k_name == <<"n", "a", "m", "e">>
k_contact_info == <<"c", "o", "n", "t", "a", "c", "t", "_", "i", "n", "f", "o">>
k_email == <<"e", "m", "a", "i", "l">>
k_phone == <<"p", "h", "o", "n", "e">>
k_location == <<"l", "o", "c", "a", "t", "i", "o", "n">>
k_website == <<"w", "e", "b", "s", "i", "t", "e">>
k_linkedin == <<"l", "i", "n", "k", "e", "d", "i", "n">>
k_github == <<"g", "i", "t", "h", "u", "b">>
k_experience == <<"e", "x", "p", "e", "r", "i", "e", "n", "c", "e">>
k_company == <<"c", "o", "m", "p", "a", "n", "y">>
k_position == <<"p", "o", "s", "i", "t", "i", "o", "n">>
k_start_date == <<"s", "t", "a", "r", "t", "_", "d", "a", "t", "e">>
k_end_date == <<"e", "n", "d", "_", "d", "a", "t", "e">>
k_highlights == <<"h", "i", "g", "h", "l", "i", "g", "h", "t", "s">>
k_education == <<"e", "d", "u", "c", "a", "t", "i", "o", "n">>
k_institution == <<"i", "n", "s", "t", "i", "t", "u", "t", "i", "o", "n">>
k_degree == <<"d", "e", "g", "r", "e", "e">>
k_field == <<"f", "i", "e", "l", "d">>
k_notes == <<"n", "o", "t", "e", "s">>
k_skills == <<"s", "k", "i", "l", "l", "s">>
k_social_networks == <<"s", "o", "c", "i", "a", "l", "_", "n", "e", "t", "w", "o", "r", "k", "s">>
k_network == <<"n", "e", "t", "w", "o", "r", "k">>
k_username == <<"u", "s", "e", "r", "n", "a", "m", "e">>
k_sections == <<"s", "e", "c", "t", "i", "o", "n", "s">>
k_details == <<"d", "e", "t", "a", "i", "l", "s">>

s_LinkedIn == <<"L", "i", "n", "k", "e", "d", "I", "n">>
s_GitHub == <<"G", "i", "t", "H", "u", "b">>
s_True == <<"T", "r", "u", "e">>
s_False == <<"F", "a", "l", "s", "e">>

-----------------------------------------------------------------------------
(* Python semantics used by the projector                                  *)

\* bool(v): None, False, 0, "", [] and {} are falsy.
Truthy(v) ==
    CASE v.t = "null" -> FALSE
      [] v.t = "bool" -> v.b
      [] v.t = "num" -> v.n # 0
      [] v.t = "str" -> v.s # <<>>
      [] v.t = "list" -> v.l # <<>>
      [] v.t = "dict" -> DOMAIN v.m # {}

\* a or b
Or(a, b) == IF Truthy(a) THEN a ELSE b

\* d.get(k) of a dict d
get(d, k) == IF k \in DOMAIN d.m THEN d.m[k] ELSE JNull

DigitChar(n) ==
    CASE n = 0 -> "0" [] n = 1 -> "1" [] n = 2 -> "2" [] n = 3 -> "3"
      [] n = 4 -> "4" [] n = 5 -> "5" [] n = 6 -> "6" [] n = 7 -> "7"
      [] n = 8 -> "8" [] n = 9 -> "9"

RECURSIVE NatStr(_)
NatStr(n) == IF n < 10 THEN <<DigitChar(n)>> ELSE NatStr(n \div 10) \o <<DigitChar(n % 10)>>

\* str(v) of a truthy str, int or bool
str(v) ==
    CASE v.t = "str" -> v.s
      [] v.t = "num" -> IF v.n < 0 THEN <<"-">> \o NatStr(0 - v.n) ELSE NatStr(v.n)
      [] v.t = "bool" -> IF v.b THEN s_True ELSE s_False

\* Keys of a dict in iteration order (exact for at most one key).
RECURSIVE KeyList(_)
KeyList(K) ==
    IF K = {} THEN <<>>
    ELSE LET k == CHOOSE x \in K : TRUE IN <<JStr(k)>> \o KeyList(K \ {k})

\* `for x in v`: the items, or TypeError for a value that is not iterable.
iter(v) ==
    CASE v.t = "list" -> Return(v.l)
      [] v.t = "str" -> Return([i \in 1..Len(v.s) |-> JStr(<<v.s[i]>>)])
      [] v.t = "dict" -> Return(KeyList(DOMAIN v.m))
      [] OTHER -> Raise("TypeError")

\* sep.join(strings)
RECURSIVE join(_, _)
join(sep, l) ==
    IF l = <<>> THEN <<>>
    ELSE IF Len(l) = 1 THEN l[1]
    ELSE l[1] \o sep \o join(sep, Tail(l))

-----------------------------------------------------------------------------
(* _strip_none_fields (lines 208-215), on the key -> value map of a dict   *)

\* Variant: null values are kept.
_strip_none_fields_keep(d) == d

_strip_none_fields(d) == [k \in {x \in DOMAIN d : d[x] # JNull} |-> d[k]]

-----------------------------------------------------------------------------
(* convert_structured_to_rendercv_yaml (lines 218-294)                     *)

\* lines 231-237: the social_networks list
social_networks(contact) ==
    (IF Truthy(get(contact, k_linkedin))
     THEN <<JDict((k_network :> JStr(s_LinkedIn))
                  @@ (k_username :> JStr(str(get(contact, k_linkedin)))))>>
     ELSE <<>>)
    \o
    (IF Truthy(get(contact, k_github))
     THEN <<JDict((k_network :> JStr(s_GitHub))
                  @@ (k_username :> JStr(str(get(contact, k_github)))))>>
     ELSE <<>>)

\* lines 222-229, 236-237: the cv mapping before null stripping
rendercv_cv(cv, contact) ==
    LET base == (k_name :> Or(get(cv, k_name), JStr(<<>>)))
                @@ (k_email :> get(contact, k_email))
                @@ (k_phone :> get(contact, k_phone))
                @@ (k_location :> get(contact, k_location))
                @@ (k_website :> get(contact, k_website))
        social == social_networks(contact)
    IN  IF social # <<>> THEN (k_social_networks :> JList(social)) @@ base ELSE base

\* lines 247-256: one experience entry
experience_entry(item) ==
    _strip_none_fields(
        (k_company :> Or(get(item, k_company), JStr(<<>>)))
        @@ (k_position :> get(item, k_position))
        @@ (k_location :> get(item, k_location))
        @@ (k_start_date :> get(item, k_start_date))
        @@ (k_end_date :> get(item, k_end_date))
        @@ (k_highlights :> Or(get(item, k_highlights), JList(<<>>))))

\* lines 267-277: one education entry
education_entry(item) ==
    _strip_none_fields(
        (k_institution :> Or(get(item, k_institution), JStr(<<>>)))
        @@ (k_degree :> get(item, k_degree))
        @@ (k_field :> get(item, k_field))
        @@ (k_location :> get(item, k_location))
        @@ (k_start_date :> get(item, k_start_date))
        @@ (k_end_date :> get(item, k_end_date))
        @@ (k_highlights :> Or(get(item, k_notes), JList(<<>>))))

\* lines 243-245, 263-265: `if not isinstance(item, dict): continue`
mapping_items(items) == SelectSeq(items, isinstance_dict)

\* lines 242-257
exp_entries(items) ==
    LET ds == mapping_items(items)
    IN  [i \in 1..Len(ds) |-> JDict(experience_entry(ds[i]))]

\* lines 262-278
edu_entries(items) ==
    LET ds == mapping_items(items)
    IN  [i \in 1..Len(ds) |-> JDict(education_entry(ds[i]))]

\* line 283: the filter of the skills comprehension
keep_skill(x) == isinstance_str(x) /\ Truthy(JStr(strip(x.s)))

\* line 283: the comprehension emits s itself
skills_list(items) ==
    LET kept == SelectSeq(items, keep_skill)
    IN  [i \in 1..Len(kept) |-> kept[i].s]

\* line 285
skills_section(skills) ==
    <<JDict(k_details :> JStr(join(<<",", " ">>, skills)))>>

\* Variant: the section is emitted even when it has no entry.
put_section_always(sections, key, entries, value) ==
    (key :> JList(value)) @@ sections

\* lines 258-259, 279-280, 284-285: `if entries: sections[key] = value`
put_section(sections, key, entries, value) ==
    IF entries # <<>> THEN (key :> JList(value)) @@ sections ELSE sections

\* lines 287-294
assemble(cvmap, sections) ==
    LET stripped == _strip_none_fields(cvmap)
    IN  JDict(k_cv :> JDict(IF DOMAIN sections # {}
                            THEN (k_sections :> JDict(sections)) @@ stripped
                            ELSE stripped))

convert_structured_to_rendercv_yaml(st) ==
    IF ~isinstance_dict(st) THEN Raise("AttributeError")
    ELSE LET cv == Or(get(st, k_cv), JDict(EmptyMap))
    IN  IF ~isinstance_dict(cv) THEN Raise("AttributeError")
    ELSE LET contact == Or(get(cv, k_contact_info), JDict(EmptyMap))
    IN  IF ~isinstance_dict(contact) THEN Raise("AttributeError")
    ELSE LET exp_it == iter(Or(get(cv, k_experience), JList(<<>>)))
    IN  IF exp_it.kind = "raise" THEN Raise("TypeError")
    ELSE LET edu_it == iter(Or(get(cv, k_education), JList(<<>>)))
    IN  IF edu_it.kind = "raise" THEN Raise("TypeError")
    ELSE LET sk_it == iter(Or(get(cv, k_skills), JList(<<>>)))
    IN  IF sk_it.kind = "raise" THEN Raise("TypeError")
    ELSE LET exps == exp_entries(exp_it.v)
             edus == edu_entries(edu_it.v)
             skills == skills_list(sk_it.v)
             s1 == put_section(EmptyMap, k_experience, exps, exps)
             s2 == put_section(s1, k_education, edus, edus)
             s3 == put_section(s2, k_skills, skills, skills_section(skills))
         IN  Return(assemble(rendercv_cv(cv, contact), s3))


-----------------------------------------------------------------------------
(* Bounds and input sets                                                   *)

MaxProse == 1    \* characters of prose on either side of the payload
MaxFiles == 3    \* files in the marker output listing
MaxSize == 2     \* largest st_size
MaxEntries == 2  \* entries of an experience / education list
MaxSkills == 3   \* entries of a skills list

SeqsUpTo(S, n) == UNION {[1..k -> S] : k \in 0..n}

ProseChars == {"x", " ", "{", "}", "[", "]", "\""}

Payloads == {
    <<"{", "}">>,
    <<"{", "\"", "a", "\"", ":", "1", "}">>,
    <<"{", "\"", "c", "v", "\"", ":", "{", "}", "}">>,
    <<"{", "\"", "a", "\"", ":", "\"", "}", "\"", "}">>,
    <<"{", "\"", "a", "\"", ":", "\"", "{", "\"", "}">>,
    <<"{", "\"", "a", "\"", ":", "{", "\"", "b", "\"", ":", "[", "1", ",", "{", "}", "]", "}", "}">>,
    <<"{", " ", "\"", "a", "\"", " ", ":", " ", "1", " ", "}">>,
    <<"[", "1", "]">>,
    <<"[", "{", "}", "]">>,
    <<"\"", "x", "\"">>,
    <<"1">>,
    <<"n", "u", "l", "l">>,
    <<>>,
    <<"{", "\"", "a", "\"", ":", "1">>,
    <<"\"", "a", "\"", ":", "1", "}">>,
    <<"}", "{">>,
    <<"{", "}", "{", "}">>,
    <<"{", "\"", "a", "\"", ":", "1", "}", "x", "{", "\"", "b", "\"", ":", "2", "}">>,
    <<"{", "x", "}">>,
    <<"{", "\"", "a", "\"", ":", "1", ",", "}">>,
    <<"x", "x">>
    }

Prose == SeqsUpTo(ProseChars, MaxProse)

n_a == <<"a", ".", "m", "d">>
n_cover == <<"c", "o", "v", "e", "r", ".", "m", "d">>
n_resume == <<"r", "e", "s", "u", "m", "e", ".", "m", "d">>
n_CV == <<"m", "y", "_", "C", "V", ".", "m", "d">>

FileNames == {n_a, n_cover, n_resume, n_CV}
StatResults == {[ok |-> FALSE]} \cup {[ok |-> TRUE, st_size |-> n] : n \in 0..MaxSize}
Files == [name : FileNames, st : StatResults]

v_Ada == JStr(<<"A", "d", "a">>)
v_Acme == JStr(<<"A", "c", "m", "e">>)
v_Dev == JStr(<<"D", "e", "v">>)
v_date1 == JStr(<<"2", "0", "2", "0", "-", "0", "3">>)
v_date2 == JStr(<<"2", "0", "2", "1", "-", "0", "1">>)
v_mail == JStr(<<"a", "@", "b">>)
v_tel == JStr(<<"5", "5", "5">>)
v_city == JStr(<<"I", "z", "m", "i", "r">>)
v_web == JStr(<<"w", ".", "x">>)
v_user == JStr(<<"u", "s", "r">>)
v_MIT == JStr(<<"M", "I", "T">>)
v_BSc == JStr(<<"B", "S", "c">>)
v_CS == JStr(<<"C", "S">>)
v_Go == JStr(<<"G", "o">>)
v_Rust == JStr(<<" ", " ", "R", "u", "s", "t", " ", " ">>)
v_blank == JStr(<<" ">>)
v_h == JStr(<<"h">>)
v_x == JStr(<<"x">>)
v_empty == JStr(<<>>)

Absent == [t |-> "absent"]

\* The dict with the fields of f that are not Absent.
Obj(f) == JDict([k \in {x \in DOMAIN f : f[x] # Absent} |-> f[k]])

Opt(v) == {Absent, JNull, v}

\* Values of the wrong type for a mapping or a list, falsy and truthy.
Scalars == {JNull, JBool(FALSE), JBool(TRUE), JNum(0), JNum(1), v_empty, v_x,
            JList(<<>>), JList(<<JNum(1)>>)}

Contacts ==
    {Obj((k_email :> e) @@ (k_phone :> p) @@ (k_location :> l) @@ (k_website :> w)
         @@ (k_linkedin :> li) @@ (k_github :> g)) :
        e \in Opt(v_mail), p \in Opt(v_tel), l \in Opt(v_city), w \in Opt(v_web),
        li \in {Absent, v_empty, v_user}, g \in {Absent, JNull, JNum(7)}}

ExpItems ==
    {JNull, v_x, JNum(1)}
    \cup {Obj((k_company :> c) @@ (k_highlights :> h)) :
            c \in Opt(v_Acme), h \in Opt(JList(<<v_h>>)) \cup {JList(<<>>)}}
    \cup {Obj((k_company :> v_Acme) @@ (k_position :> p) @@ (k_location :> v_city)
              @@ (k_start_date :> sd) @@ (k_end_date :> ed) @@ (k_highlights :> JList(<<>>))) :
            p \in {Absent, v_Dev}, sd \in {Absent, v_date1}, ed \in {Absent, v_date2}}
    \cup {Obj((k_company :> v_Acme) @@ (k_position :> p) @@ (k_location :> l)
              @@ (k_start_date :> JNull) @@ (k_end_date :> v_date2)) :
            p \in {JNull, v_empty}, l \in {Absent, JNull}}

EduItems ==
    {JNull, v_x, JList(<<>>)}
    \cup {Obj((k_institution :> c) @@ (k_notes :> h)) :
            c \in Opt(v_MIT), h \in Opt(JList(<<v_h>>)) \cup {JList(<<>>)}}
    \cup {Obj((k_institution :> v_MIT) @@ (k_degree :> d) @@ (k_field :> f)
              @@ (k_location :> l) @@ (k_start_date :> v_date1) @@ (k_end_date :> ed)
              @@ (k_highlights :> JList(<<v_x>>))) :
            d \in Opt(v_BSc), f \in {Absent, v_CS}, l \in {JNull, v_city},
            ed \in {Absent, v_date2}}

SkillItems == {v_Go, v_Rust, v_empty, v_blank, JNull, JNum(1)}

CvOf(f) == JDict(k_cv :> Obj(f))

CvShapeInputs == {JDict(k_cv :> v) : v \in Scalars \cup {JDict(EmptyMap)}}

\* Values under "experience", "education" or "skills" that are no list.
NoLists(k, v) == Scalars \cup {Absent, JDict(k :> v)}

MixedInputs ==
    {CvOf((k_contact_info :> c) @@ (k_experience :> e) @@ (k_education :> d)
          @@ (k_skills :> sk)) :
        c \in {JNull, Obj((k_email :> v_mail) @@ (k_phone :> Absent))},
        e \in {JList(<<>>), JList(<<JNull>>),
               JList(<<Obj((k_company :> v_Acme) @@ (k_start_date :> v_date1))>>)},
        d \in {JList(<<>>), JList(<<Obj((k_institution :> v_MIT))>>)},
        sk \in {JList(<<>>), JList(<<v_blank>>), JList(<<JStr(<<"C", "+", "+">>)>>)}}

\* message.content values the generation backend may return
c_ok == <<"{", "\"", "c", "v", "\"", ":", "{", "}", "}">>
c_wrapped == <<"S", "u", "r", "e", ":", "\n", "{", "\"", "c", "v", "\"", ":", "{", "\"", "n", "a", "m", "e", "\"", ":", "\"", "A", "\"", ",", "\"", "s", "k", "i", "l", "l", "s", "\"", ":", "[", "\"", "G", "o", "\"", ",", "\"", "\"", "]", "}", "}", "\n", "o", "k">>
c_full == <<" ", "{", "\"", "c", "v", "\"", ":", "{", "\"", "c", "o", "n", "t", "a", "c", "t", "_", "i", "n", "f", "o", "\"", ":", "{", "\"", "p", "h", "o", "n", "e", "\"", ":", "n", "u", "l", "l", "}", ",", "\"", "e", "x", "p", "e", "r", "i", "e", "n", "c", "e", "\"", ":", "[", "{", "\"", "c", "o", "m", "p", "a", "n", "y", "\"", ":", "\"", "B", "\"", "}", ",", "7", "]", "}", "}", " ">>
c_no_cv == <<"{", "}">>
c_cv_nested == <<"x", "{", "\"", "a", "\"", ":", "{", "\"", "c", "v", "\"", ":", "1", "}", "}">>
c_array == <<"[", "1", "]">>
c_string == <<"\"", "c", "v", "\"">>
c_prose == <<"n", "o", " ", "j", "s", "o", "n">>
c_broken == <<"{", "\"", "c", "v", "\"", ":", "}">>
c_cv_list == <<"{", "\"", "c", "v", "\"", ":", "[", "1", "]", "}">>
c_skills_num == <<"{", "\"", "c", "v", "\"", ":", "{", "\"", "s", "k", "i", "l", "l", "s", "\"", ":", "5", "}", "}">>
c_blank == <<" ", "\n">>

PipelineContents ==
    {c_ok, c_wrapped, c_full, c_no_cv, c_cv_nested, c_array,
     c_string, c_prose, c_broken, c_cv_list, c_skills_num, c_blank}

\* listings the extractor may leave in marker_out
PipelineListings ==
    {<<>>,
     <<[name |-> n_a, st |-> [ok |-> TRUE, st_size |-> 2]]>>,
     <<[name |-> n_a, st |-> [ok |-> TRUE, st_size |-> 2]],
       [name |-> n_resume, st |-> [ok |-> TRUE, st_size |-> 1]]>>}

-----------------------------------------------------------------------------
(* The pipeline orchestrator: main (lines 325-400) and the module's entry  *)
(* point (lines 403-407)                                                   *)

f_md == "resume.md"
f_json == "resume_data.json"
f_yaml == "resume_data.rendercv.yaml"
Artifacts == {f_md, f_json, f_yaml}

\* Variant: the backend is called before resume.md is written.
main_next_md_late(p) ==
    CASE p = "start" -> "marker"
      [] p = "marker" -> "select"
      [] p = "select" -> "ollama"
      [] p = "ollama" -> "write_md"
      [] p = "write_md" -> "salvage"
      [] p = "salvage" -> "validate"
      [] p = "validate" -> "write_json"
      [] p = "write_json" -> "convert"
      [] p = "convert" -> "write_yaml"
      [] p = "write_yaml" -> "render"
      [] p = "render" -> "report"

\* Statement order of main: the position reached when a step completes.
main_next(p) ==
    CASE p = "start" -> "marker"
      [] p = "marker" -> "select"
      [] p = "select" -> "write_md"
      [] p = "write_md" -> "ollama"
      [] p = "ollama" -> "salvage"
      [] p = "salvage" -> "validate"
      [] p = "validate" -> "write_json"
      [] p = "write_json" -> "convert"
      [] p = "convert" -> "write_yaml"
      [] p = "write_yaml" -> "render"
      [] p = "render" -> "report"

\* line 390: `if not args.skip_render`
render_enabled(skip) == ~skip

\* Variant: the gate accepts every mapping.
schema_ok_any_mapping(obj) == isinstance_dict(obj)

\* line 202: the gate of the schema validator
schema_ok(obj) == isinstance_dict(obj) /\ k_cv \in DOMAIN obj.m

\* Variant: the exception is swallowed and the process exits with status 0.
Fail_exit0(cause) ==
    /\ pc' = "exited"
    /\ stage' = "Failed"
    /\ failure' = cause
    /\ exit_code' = 0

\* An exception (or SystemExit with a message) leaves main and ends the
\* interpreter with status 1.
Fail(cause) ==
    /\ pc' = "exited"
    /\ stage' = "Failed"
    /\ failure' = cause
    /\ exit_code' = 1

\* The step completed: control reaches the next statement.
Continue(st) ==
    /\ pc' = main_next(pc)
    /\ stage' = st
    /\ UNCHANGED <<failure, exit_code>>

Idle ==
    /\ stage = "Init"
    /\ trace = <<>>
    /\ exit_code = -1
    /\ failure = "none"
    /\ candidates = <<>>
    /\ md_path = NotCalled
    /\ content = <<>>
    /\ salvaged = NotCalled
    /\ structured = JNull
    /\ projected = NotCalled

Init ==
    /\ pc = "start"
    /\ skip_render \in BOOLEAN
    /\ disk \in [Artifacts -> {"absent", "stale"}]
    /\ Idle

\* lines 362-368
CheckPdf ==
    /\ pc = "start"
    /\ \E exists \in BOOLEAN :
          IF exists THEN Continue(stage) ELSE Fail("PdfNotFound")
    /\ UNCHANGED <<skip_render, disk, trace, candidates, md_path, content,
                   salvaged, structured, projected>>

\* lines 371, 125-140, 80-86: the extractor runs as a child process
RunMarker ==
    /\ pc = "marker"
    /\ trace' = Append(trace, "extract")
    /\ \E files \in PipelineListings : candidates' = files
    /\ \E outcome \in {"ok", "CommandNotFound", "CommandFailed"} :
          IF outcome = "ok" THEN Continue(stage) ELSE Fail(outcome)
    /\ UNCHANGED <<skip_render, disk, md_path, content, salvaged, structured,
                   projected>>

\* line 141
SelectMarkdown ==
    /\ pc = "select"
    /\ trace' = Append(trace, "select")
    /\ md_path' = _find_best_markdown(candidates)
    /\ IF md_path'.kind = "raise" THEN Fail(md_path'.exc) ELSE Continue(stage)
    /\ UNCHANGED <<skip_render, disk, candidates, content, salvaged, structured,
                   projected>>

\* lines 374-375
WriteMarkdown ==
    /\ pc = "write_md"
    /\ trace' = Append(trace, "write_md")
    /\ disk' = [disk EXCEPT ![f_md] = "fresh"]
    /\ Continue("Extracted")
    /\ UNCHANGED <<skip_render, candidates, md_path, content, salvaged,
                   structured, projected>>

\* lines 378, 169-199: one request to the backend, no retry
CallOllama ==
    /\ pc = "ollama"
    /\ trace' = Append(trace, "generate")
    /\ \/ /\ \E cause \in {"MissingDependency", "TransportError", "Timeout",
                           "MissingContent"} : Fail(cause)
          /\ UNCHANGED content
       \/ \E c \in PipelineContents :
             /\ content' = c
             /\ IF strip(c) = <<>> THEN Fail("MissingContent") ELSE Continue(stage)
    /\ UNCHANGED <<skip_render, disk, candidates, md_path, salvaged, structured,
                   projected>>

\* line 201
Salvage ==
    /\ pc = "salvage"
    /\ trace' = Append(trace, "salvage")
    /\ salvaged' = _extract_json_object(content)
    /\ IF salvaged'.kind = "raise" THEN Fail(salvaged'.exc) ELSE Continue(stage)
    /\ UNCHANGED <<skip_render, disk, candidates, md_path, content, structured,
                   projected>>

\* lines 202-205
Validate ==
    /\ pc = "validate"
    /\ trace' = Append(trace, "validate")
    /\ IF schema_ok(salvaged.v)
       THEN structured' = salvaged.v /\ Continue(stage)
       ELSE UNCHANGED structured /\ Fail("SchemaViolation")
    /\ UNCHANGED <<skip_render, disk, candidates, md_path, content, salvaged,
                   projected>>

\* lines 381-383
WriteJson ==
    /\ pc = "write_json"
    /\ trace' = Append(trace, "write_json")
    /\ disk' = [disk EXCEPT ![f_json] = "fresh"]
    /\ Continue("Structured")
    /\ UNCHANGED <<skip_render, candidates, md_path, content, salvaged,
                   structured, projected>>

\* line 386
Convert ==
    /\ pc = "convert"
    /\ trace' = Append(trace, "project")
    /\ projected' = convert_structured_to_rendercv_yaml(structured)
    /\ IF projected'.kind = "raise" THEN Fail(projected'.exc) ELSE Continue(stage)
    /\ UNCHANGED <<skip_render, disk, candidates, md_path, content, salvaged,
                   structured>>

\* lines 387, 297-302
WriteYaml ==
    /\ pc = "write_yaml"
    /\ trace' = Append(trace, "write_yaml")
    /\ \E yaml_present \in BOOLEAN :
          IF yaml_present
          THEN disk' = [disk EXCEPT ![f_yaml] = "fresh"] /\ Continue("Projected")
          ELSE UNCHANGED disk /\ Fail("MissingDependency")
    /\ UNCHANGED <<skip_render, candidates, md_path, content, salvaged,
                   structured, projected>>

\* lines 390-391, 305-311, 80-86
Render ==
    /\ pc = "render"
    /\ IF render_enabled(skip_render)
       THEN /\ trace' = Append(trace, "render")
            /\ \E outcome \in {"ok", "CommandNotFound", "CommandFailed"} :
                  IF outcome = "ok" THEN Continue("Rendered") ELSE Fail(outcome)
       ELSE /\ UNCHANGED trace
            /\ Continue(stage)
    /\ UNCHANGED <<skip_render, disk, candidates, md_path, content, salvaged,
                   structured, projected>>

\* lines 393-400, 405: main returns 0
Report ==
    /\ pc = "report"
    /\ trace' = Append(trace, "done")
    /\ pc' = "exited"
    /\ stage' = "Done"
    /\ exit_code' = 0
    /\ UNCHANGED <<skip_render, disk, failure, candidates, md_path, content,
                   salvaged, structured, projected>>

\* lines 406-407: KeyboardInterrupt between two steps
Interrupt ==
    /\ pc \notin {"start", "exited"}
    /\ pc' = "exited"
    /\ stage' = "Failed"
    /\ failure' = "KeyboardInterrupt"
    /\ exit_code' = 130
    /\ UNCHANGED <<skip_render, disk, trace, candidates, md_path, content,
                   salvaged, structured, projected>>

Next ==
    \/ CheckPdf
    \/ RunMarker
    \/ SelectMarkdown
    \/ WriteMarkdown
    \/ CallOllama
    \/ Salvage
    \/ Validate
    \/ WriteJson
    \/ Convert
    \/ WriteYaml
    \/ Render
    \/ Report
    \/ Interrupt

Spec == Init /\ [][Next]_vars

-----------------------------------------------------------------------------
(* The pure functions, each called once on an input of its input set       *)

NoDisk == [a \in Artifacts |-> "absent"]

SalvageInit ==
    /\ pc = "salvage_call"
    /\ skip_render = FALSE
    /\ disk = NoDisk
    /\ \E p \in Prose, m \in Payloads, q \in Prose : content = p \o m \o q
    /\ stage = "Init" /\ trace = <<>> /\ exit_code = -1 /\ failure = "none"
    /\ candidates = <<>> /\ md_path = NotCalled /\ salvaged = NotCalled
    /\ structured = JNull /\ projected = NotCalled

SalvageCall ==
    /\ pc = "salvage_call"
    /\ salvaged' = _extract_json_object(content)
    /\ pc' = "salvage_done"
    /\ UNCHANGED <<stage, skip_render, disk, trace, exit_code, failure,
                   candidates, md_path, content, structured, projected>>

SpecSalvage == SalvageInit /\ [][SalvageCall]_vars

SelectInit ==
    /\ pc = "select_call"
    /\ skip_render = FALSE
    /\ disk = NoDisk
    /\ \E k \in 0..MaxFiles : candidates \in [1..k -> Files]
    /\ stage = "Init" /\ trace = <<>> /\ exit_code = -1 /\ failure = "none"
    /\ md_path = NotCalled /\ content = <<>> /\ salvaged = NotCalled
    /\ structured = JNull /\ projected = NotCalled

SelectCall ==
    /\ pc = "select_call"
    /\ md_path' = _find_best_markdown(candidates)
    /\ pc' = "select_done"
    /\ UNCHANGED <<stage, skip_render, disk, trace, exit_code, failure,
                   candidates, content, salvaged, structured, projected>>

SpecSelect == SelectInit /\ [][SelectCall]_vars

ProjectInit ==
    /\ pc = "project_call"
    /\ skip_render = FALSE
    /\ disk = NoDisk
    /\ \/ structured \in CvShapeInputs \cup MixedInputs
       \/ \E n \in Opt(v_Ada), c \in Contacts \cup Scalars :
             structured = CvOf((k_name :> n) @@ (k_contact_info :> c))
       \/ \E e \in NoLists(k_company, v_Acme) :
             structured = CvOf((k_name :> v_Ada) @@ (k_experience :> e))
       \/ \E k \in 0..MaxEntries : \E l \in [1..k -> ExpItems] :
             structured = CvOf((k_name :> v_Ada) @@ (k_experience :> JList(l)))
       \/ \E e \in NoLists(k_institution, v_MIT) :
             structured = CvOf((k_name :> v_Ada) @@ (k_education :> e))
       \/ \E k \in 0..MaxEntries : \E l \in [1..k -> EduItems] :
             structured = CvOf((k_name :> v_Ada) @@ (k_education :> JList(l)))
       \/ \E sk \in NoLists(k_name, v_Go) :
             structured = CvOf((k_name :> v_Ada) @@ (k_skills :> sk))
       \/ \E k \in 0..MaxSkills : \E l \in [1..k -> SkillItems] :
             structured = CvOf((k_name :> v_Ada) @@ (k_skills :> JList(l)))
    /\ stage = "Init" /\ trace = <<>> /\ exit_code = -1 /\ failure = "none"
    /\ candidates = <<>> /\ md_path = NotCalled /\ content = <<>>
    /\ salvaged = NotCalled /\ projected = NotCalled

ProjectCall ==
    /\ pc = "project_call"
    /\ projected' = convert_structured_to_rendercv_yaml(structured)
    /\ pc' = "project_done"
    /\ UNCHANGED <<stage, skip_render, disk, trace, exit_code, failure,
                   candidates, md_path, content, salvaged, structured>>

SpecProject == ProjectInit /\ [][ProjectCall]_vars


-----------------------------------------------------------------------------
(* Properties of the orchestrator (specification Spec)                     *)

Canon(skip) ==
    <<"extract", "select", "write_md", "generate", "salvage", "validate",
      "write_json", "project", "write_yaml">>
    \o (IF skip THEN <<>> ELSE <<"render">>) \o <<"done">>

IsPrefix(a, b) == Len(a) <= Len(b) /\ SubSeq(b, 1, Len(a)) = a

InSeq(e, s) == \E i \in 1..Len(s) : s[i] = e

Occurred(e) == InSeq(e, trace)

Front(s) == SubSeq(s, 1, Len(s) - 1)

NoDup(s) == \A i, j \in 1..Len(s) : s[i] = s[j] => i = j

WriteEvent(a) ==
    CASE a = f_md -> "write_md" [] a = f_json -> "write_json"
      [] a = f_yaml -> "write_yaml"

StageStep ==
    \/ stage' = stage
    \/ stage' = "Failed"
    \/ <<stage, stage'>> \in {<<"Init", "Extracted">>, <<"Extracted", "Structured">>,
                              <<"Structured", "Projected">>, <<"Projected", "Rendered">>,
                              <<"Rendered", "Done">>}
    \/ skip_render /\ stage = "Projected" /\ stage' = "Done"

C1_Order ==
    /\ IsPrefix(trace, Canon(skip_render))
    /\ Occurred("generate") => disk[f_md] = "fresh"
    /\ Occurred("project") => disk[f_json] = "fresh"
    /\ Occurred("render") => disk[f_yaml] = "fresh" /\ ~skip_render
    /\ stage = "Extracted" => Occurred("write_md") /\ ~Occurred("write_json")
    /\ stage = "Structured" => Occurred("write_json") /\ ~Occurred("write_yaml")
    /\ stage = "Projected" => Occurred("write_yaml") /\ ~Occurred("render")
    /\ stage = "Rendered" => Occurred("render") /\ ~Occurred("done")
    /\ stage = "Done" => trace = Canon(skip_render)

\* C1: in every run the stages execute in the order Init, Extracted,
\* Structured, Projected, Rendered, Done, leaving it only by terminal
\* failure (Rendered is passed over when skip-render is set); resume.md is
\* written before the backend is called, resume_data.json before the
\* projection is computed, resume_data.rendercv.yaml before the renderer is
\* invoked, and the renderer is not invoked at all under skip-render.
C1_StageOrder == [](C1_Order) /\ [][StageStep]_vars

C1_Witness ==
    /\ pc = "exited" /\ exit_code = 0 /\ stage = "Done"
    /\ ~skip_render /\ Occurred("render")
    /\ \A a \in Artifacts : disk[a] = "fresh"

C2_Terminal ==
    /\ failure # "none" =>
          /\ pc = "exited" /\ stage = "Failed"
          /\ exit_code \notin {0, -1}
          /\ ~Occurred("done")
          /\ \A a \in Artifacts :
                disk[a] = "fresh" <=>
                    InSeq(WriteEvent(a),
                          IF failure = "KeyboardInterrupt" THEN trace ELSE Front(trace))
    /\ NoDup(trace)
    /\ exit_code = 0 =>
          /\ failure = "none"
          /\ trace = Canon(skip_render)
          /\ \A a \in Artifacts : disk[a] = "fresh"

\* C2: a stage failure is terminal: the failed step is the last one the run
\* executes and no step runs twice, the artifacts on disk written by this
\* run are exactly those of the steps that succeeded before it and they stay
\* there, the exit code is non-zero, and exit code 0 occurs only after every
\* stage succeeded.
C2_FailureTerminal ==
    /\ [](C2_Terminal)
    /\ [][/\ pc # "exited"
          /\ \A a \in Artifacts : disk[a] = "fresh" => disk'[a] = "fresh"]_vars

C2_Witness ==
    /\ failure = "InvalidJson" /\ exit_code = 1
    /\ disk[f_md] = "fresh" /\ disk[f_json] # "fresh" /\ disk[f_yaml] # "fresh"

\* C9: resume_data.json is written and projection starts only with a
\* salvaged value that is a mapping with the key "cv"; any other salvaged
\* value ends the run with SchemaViolation, and neither resume_data.json nor
\* resume_data.rendercv.yaml is written by that run.
C9_ValidatorGate ==
    /\ (\/ stage \in {"Structured", "Projected", "Rendered", "Done"}
        \/ disk[f_json] = "fresh"
        \/ Occurred("project"))
       => /\ salvaged.kind = "return"
          /\ salvaged.v.t = "dict"
          /\ k_cv \in DOMAIN salvaged.v.m
          /\ structured = salvaged.v
    /\ (/\ Occurred("validate")
        /\ ~(salvaged.v.t = "dict" /\ k_cv \in DOMAIN salvaged.v.m))
       => /\ failure = "SchemaViolation"
          /\ pc = "exited" /\ exit_code # 0
          /\ disk[f_json] # "fresh" /\ disk[f_yaml] # "fresh"

C9_Witness ==
    /\ failure = "SchemaViolation"
    /\ salvaged.kind = "return" /\ salvaged.v.t = "dict"
    /\ k_cv \notin DOMAIN salvaged.v.m
    /\ disk[f_md] = "fresh"

-----------------------------------------------------------------------------
(* Properties of _extract_json_object (specification SpecSalvage)          *)

BraceFree(s) == \A i \in 1..Len(s) : s[i] \notin {"{", "}"}

IsObjectText(s) ==
    LET r == json_loads(s) IN r.kind = "return" /\ r.v.t = "dict"

Trimmed == strip(content)

DirectFails == json_loads(Trimmed).kind = "raise"

Opens == {i \in 1..Len(Trimmed) : Trimmed[i] = "{"}
Closes == {i \in 1..Len(Trimmed) : Trimmed[i] = "}"}
FirstOpen == CHOOSE i \in Opens : \A j \in Opens : i <= j
LastClose == CHOOSE i \in Closes : \A j \in Closes : j <= i
NoObjectBounds == Opens = {} \/ Closes = {} \/ LastClose <= FirstOpen

\* What the salvage step yields on the trimmed text.
SalvageStep ==
    IF NoObjectBounds THEN Raise("NoJsonFound")
    ELSE LET r == json_loads(SubSeq(Trimmed, FirstOpen, LastClose))
         IN  IF r.kind = "return" THEN Return(r.v) ELSE Raise("InvalidJson")

\* C3: when the direct parse of the trimmed text yields nothing, the result
\* is that of parsing the slice from the first "{" to the last "}"
\* inclusive: brace-free prose around one valid JSON object gives that
\* object, and a text without "{", without "}", or whose last "}" does not
\* follow its first "{" fails with NoJsonFound.
C3_SalvageSlice ==
    (pc = "salvage_done" /\ DirectFails) =>
        /\ salvaged = SalvageStep
        /\ \A i, j \in 1..Len(Trimmed) :
              (/\ i <= j
               /\ BraceFree(SubSeq(Trimmed, 1, i - 1))
               /\ BraceFree(SubSeq(Trimmed, j + 1, Len(Trimmed)))
               /\ IsObjectText(SubSeq(Trimmed, i, j)))
              => salvaged = Return(json_loads(SubSeq(Trimmed, i, j)).v)
        /\ NoObjectBounds => salvaged = Raise("NoJsonFound")

C3_Witness ==
    /\ pc = "salvage_done" /\ DirectFails
    /\ salvaged.kind = "return" /\ DOMAIN salvaged.v.m # {}
    /\ Trimmed[1] # "{" /\ Trimmed[Len(Trimmed)] # "}"
    /\ BraceFree(SubSeq(Trimmed, 1, FirstOpen - 1))
    /\ BraceFree(SubSeq(Trimmed, LastClose + 1, Len(Trimmed)))

\* C4: only JSON objects are returned: a direct parse that yields an array,
\* string, number, boolean or null is not returned, and the result is then
\* that of the first-"{"/last-"}" salvage step.
C4_ObjectsOnly ==
    pc = "salvage_done" =>
        /\ salvaged.kind = "return" => salvaged.v.t = "dict"
        /\ (~DirectFails /\ json_loads(Trimmed).v.t # "dict") => salvaged = SalvageStep


-----------------------------------------------------------------------------
(* Properties of convert_structured_to_rendercv_yaml (SpecProject)         *)

ProjectionReturned == pc = "project_done" /\ projected.kind = "return"

\* The value under key k of v, null when v is no mapping or lacks the key.
Field(v, k) == IF v.t = "dict" /\ k \in DOMAIN v.m THEN v.m[k] ELSE JNull

SrcCv == Field(structured, k_cv)
SrcContact == Field(SrcCv, k_contact_info)

\* The entries of the source list under key k that are mappings, in order.
RECURSIVE OnlyMappings(_)
OnlyMappings(l) ==
    IF l = <<>> THEN <<>>
    ELSE IF Head(l).t = "dict" THEN <<Head(l)>> \o OnlyMappings(Tail(l))
    ELSE OnlyMappings(Tail(l))

SrcMappings(k) ==
    LET v == Field(SrcCv, k) IN IF v.t = "list" THEN OnlyMappings(v.l) ELSE <<>>

OutCv == projected.v.m[k_cv].m
OutSections == IF k_sections \in DOMAIN OutCv THEN OutCv[k_sections].m ELSE EmptyMap
OutEntries(k) == IF k \in DOMAIN OutSections THEN OutSections[k].l ELSE <<>>

\* Key k of the output mapping out mirrors the source value src: absent
\* when src is null, equal to src otherwise.
Mirrors(out, k, src) ==
    IF src = JNull THEN k \notin DOMAIN out ELSE k \in DOMAIN out /\ out[k] = src

NoNullValue(m) == \A k \in DOMAIN m : m[k] # JNull

EntryMirrors(section, optional) ==
    LET src == SrcMappings(section)
        out == OutEntries(section)
    IN  /\ Len(out) = Len(src)
        /\ \A i \in 1..Len(out) :
              /\ NoNullValue(out[i].m)
              /\ \A k \in optional : Mirrors(out[i].m, k, Field(src[i], k))

\* C5: projection never fails on a mapping that has the key "cv".
C5_Total == pc = "project_done" => projected.kind = "return"

\* C6: no key of the cv mapping or of an experience or education entry has
\* the value null; a contact field or optional entry field that is absent
\* or null in the source has no key in the output, one that is present and
\* non-null is emitted with its source value.
C6_NullOmission ==
    ProjectionReturned =>
        /\ NoNullValue(OutCv)
        /\ \A k \in {k_email, k_phone, k_location, k_website} :
              Mirrors(OutCv, k, Field(SrcContact, k))
        /\ EntryMirrors(k_experience,
                        {k_position, k_location, k_start_date, k_end_date})
        /\ EntryMirrors(k_education,
                        {k_degree, k_field, k_location, k_start_date, k_end_date})

C6_Witness ==
    /\ ProjectionReturned
    /\ Field(SrcContact, k_email) # JNull /\ k_email \in DOMAIN OutCv
    /\ Field(SrcContact, k_phone) = JNull /\ k_phone \notin DOMAIN OutCv
    /\ Len(OutEntries(k_experience)) = 1
    /\ k_start_date \in DOMAIN OutEntries(k_experience)[1].m
    /\ k_position \notin DOMAIN OutEntries(k_experience)[1].m

IsStringList(v) == v.t = "list" /\ \A i \in 1..Len(v.l) : v.l[i].t = "str"

RECURSIVE TrimmedNonEmpty(_)
TrimmedNonEmpty(l) ==
    IF l = <<>> THEN <<>>
    ELSE IF strip(Head(l).s) = <<>> THEN TrimmedNonEmpty(Tail(l))
    ELSE <<strip(Head(l).s)>> \o TrimmedNonEmpty(Tail(l))

\* C7: the skills that are non-empty after trimming are emitted trimmed,
\* joined by ", " in source order, as the single field of the single skills
\* entry; with none left the skills section is omitted.
C7_SkillsTrimmed ==
    (ProjectionReturned /\ IsStringList(Field(SrcCv, k_skills))) =>
        LET kept == TrimmedNonEmpty(Field(SrcCv, k_skills).l)
        IN  IF kept = <<>> THEN k_skills \notin DOMAIN OutSections
            ELSE /\ k_skills \in DOMAIN OutSections
                 /\ OutSections[k_skills] =
                        JList(<<JDict(k_details :> JStr(join(<<",", " ">>, kept)))>>)

SectionOf(section, identity, listkey) ==
    LET src == SrcMappings(section)
        out == OutEntries(section)
    IN  /\ (section \in DOMAIN OutSections) <=> (src # <<>>)
        /\ Len(out) = Len(src)
        /\ \A i \in 1..Len(out) :
              /\ out[i].t = "dict"
              /\ k_highlights \in DOMAIN out[i].m /\ identity \in DOMAIN out[i].m
              /\ out[i].m[identity] =
                    (IF Field(src[i], identity) = JNull THEN JStr(<<>>)
                     ELSE Field(src[i], identity))
              /\ out[i].m[k_highlights] =
                    (IF Field(src[i], listkey) = JNull THEN JList(<<>>)
                     ELSE Field(src[i], listkey))

\* C8: the experience (education) section key is present exactly when the
\* source list has an entry that is a mapping; the section then holds one
\* entry per mapping entry, in source order, with an empty string for a
\* missing company (institution) and an empty sequence for a missing list
\* field; no skills key is emitted for a source without skills.
C8_Sections ==
    ProjectionReturned =>
        /\ SectionOf(k_experience, k_company, k_highlights)
        /\ SectionOf(k_education, k_institution, k_notes)
        /\ Field(SrcCv, k_skills) \in {JNull, JList(<<>>)}
              => k_skills \notin DOMAIN OutSections

C8_Witness ==
    /\ ProjectionReturned
    /\ Field(SrcCv, k_experience).t = "list"
    /\ Len(Field(SrcCv, k_experience).l) = 2
    /\ Len(SrcMappings(k_experience)) = 1
    /\ Field(SrcMappings(k_experience)[1], k_company) = JNull
    /\ Len(OutEntries(k_experience)) = 1
    /\ OutEntries(k_experience)[1].m[k_company] = JStr(<<>>)
    /\ k_education \notin DOMAIN OutSections

-----------------------------------------------------------------------------
(* Properties of _find_best_markdown (specification SpecSelect)            *)

MatchingNames == {n_resume, n_CV}

\* The ranking key: (name matches the resume/CV pattern, size in bytes);
\* a file whose size cannot be read counts as empty.
RankKey(f) ==
    <<IF f.name \in MatchingNames THEN 1 ELSE 0,
      IF f.st.ok THEN f.st.st_size ELSE 0>>

Outranks(a, b) == a[1] > b[1] \/ (a[1] = b[1] /\ a[2] > b[2])

\* C10: the selector returns a candidate of maximal key (name match, size),
\* the first such candidate in listing order, and fails with NoArtifacts on
\* an empty listing.
C10_SelectBest ==
    pc = "select_done" =>
        IF candidates = <<>> THEN md_path = Raise("NoArtifacts")
        ELSE /\ md_path.kind = "return"
             /\ md_path.v \in 1..Len(candidates)
             /\ \A j \in 1..Len(candidates) :
                   /\ ~Outranks(RankKey(candidates[j]), RankKey(candidates[md_path.v]))
                   /\ RankKey(candidates[j]) = RankKey(candidates[md_path.v])
                         => md_path.v <= j

C10_Witness ==
    /\ pc = "select_done" /\ md_path.kind = "return"
    /\ Len(candidates) = 3
    /\ md_path.v = 2
    /\ candidates[2].name = n_CV /\ candidates[3] = candidates[2]
    /\ candidates[1].name = n_cover
    /\ RankKey(candidates[1])[2] > RankKey(candidates[2])[2]

=============================================================================
